---------------------------- MODULE Spec2Model ----------------------------
(***************************************************************************)
(* koji-osbuild: the compose-lifecycle client of plugins/builder/osbuild.py *)
(* (Repository, ImageRequest, ComposeRequest, ComposeStatus, Client), the   *)
(* OSBuildImage task handler and the command-line commands built on it,     *)
(* and the hub entry point osbuildImage of plugins/hub/osbuild.py with its  *)
(* argument schema.  ConcurrentSpec runs two handler invocations side by    *)
(* side.                                                                    *)
(*                                                                         *)
(* A Python str is a sequence of one-character strings, so that lower(),    *)
(* Template.substitute and f-string concatenation are computed character    *)
(* by character.  A Python dict is a function whose DOMAIN is its key set.  *)
(***************************************************************************)
EXTENDS Naturals, Sequences, FiniteSets, TLC

VARIABLES
    cmd,        \* entry point running: "handler", "compose", "status", "wait"
    args,       \* the entry point's arguments
    pc,         \* position of the running entry point
    images,     \* the ImageRequest list built so far
    posts,      \* the POST /compose exchanges: body sent, answer given
    cid,        \* compose id held by the entry point
    observed,   \* responses the service gave to GET /compose/{id}, in order
    polls,      \* number of compose_status calls made (saturates at MaxPolls)
    polled,     \* compose ids the compose_status calls were made for
    status,     \* the ComposeStatus last returned by compose_status
    result,     \* value returned by the entry point
    error,      \* exception propagated out of the entry point
    client,     \* the Client instance of the entry point
    gets,       \* URLs the compose_status calls requested
    task_args,  \* hub: the local args of osbuildImage
    tasks,      \* hub: the kojihub.make_task calls made
    h,          \* concurrent handlers: the state of each invocation
    served      \* concurrent handlers: the service's answers per compose id

hub_vars == <<task_args, tasks>>
conc_vars == <<h, served>>

vars == <<cmd, args, pc, images, posts, cid, observed, polls, polled,
          status, result, error, client, gets, hub_vars, conc_vars>>

-----------------------------------------------------------------------------
(* Bounds of the model *)

MaxPolls == 3
MaxArches == 2
MaxFormats == 2
MaxImages == 2

-----------------------------------------------------------------------------
(* Characters *)

LowerAlpha == <<"a", "b", "c", "d", "e", "f", "g", "h", "i", "j", "k", "l", "m",
                "n", "o", "p", "q", "r", "s", "t", "u", "v", "w", "x", "y", "z">>
UpperAlpha == <<"A", "B", "C", "D", "E", "F", "G", "H", "I", "J", "K", "L", "M",
                "N", "O", "P", "Q", "R", "S", "T", "U", "V", "W", "X", "Y", "Z">>
Digits == {"0", "1", "2", "3", "4", "5", "6", "7", "8", "9"}

Range(s) == {s[i] : i \in DOMAIN s}

LowerLetters == Range(LowerAlpha)
UpperLetters == Range(UpperAlpha)

\* The lower-case letter of each upper-case letter, and the converse.
ToLower == [c \in UpperLetters |->
               LowerAlpha[CHOOSE i \in DOMAIN UpperAlpha : UpperAlpha[i] = c]]
ToUpper == [c \in LowerLetters |->
               UpperAlpha[CHOOSE i \in DOMAIN LowerAlpha : LowerAlpha[i] = c]]

\* str.lower() on one character: an upper-case letter maps to its lower-case
\* letter, every other character is unchanged.
LowerChar(c) == IF c \in UpperLetters THEN ToLower[c] ELSE c

UpperChar(c) == IF c \in LowerLetters THEN ToUpper[c] ELSE c

\* str.lower()
Lower(s) == [i \in DOMAIN s |-> LowerChar(s[i])]

-----------------------------------------------------------------------------
(* string.Template.substitute(arch=arch), as used by Repository.as_dict *)

IdStart(c) == c \in LowerLetters \cup UpperLetters \cup {"_"}
IdChar(c) == IdStart(c) \/ c \in Digits

\* Length of the longest run of identifier characters of s starting at i.
IdRun(s, i) ==
    CHOOSE n \in 0..(Len(s) + 1 - i) :
        /\ \A k \in i..(i + n - 1) : IdChar(s[k])
        /\ i + n <= Len(s) => ~IdChar(s[i + n])

\* Position of the first "$" of s at or after i, Len(s) + 1 when there is none.
NextDollar(s, i) ==
    CHOOSE j \in i..(Len(s) + 1) :
        /\ \A k \in i..(j - 1) : s[k] # "$"
        /\ j <= Len(s) => s[j] = "$"

\* The outcome of a call: the value returned (err = "") or the exception raised.
Ok(v) == [err |-> "", val |-> v]
Raise(e) == [err |-> e, val |-> <<>>]

\* Continue with F on the value of r unless r raised.
Bind(r, F(_)) == IF r.err # "" THEN r ELSE F(r.val)

\* The value of a placeholder: substitute() is called with arch only.
Lookup(name, arch) ==
    IF name = <<"a", "r", "c", "h">> THEN Ok(arch) ELSE Raise("KeyError")

\* A placeholder whose lookup gave v, scanning resuming at next.
Placeholder(v, next) == Bind(v, LAMBDA text : Ok([emit |-> text, next |-> next]))

\* What Template's pattern matches at position i of s: the text it yields
\* (emit), where scanning resumes (next), or the exception raised.  "$$" is
\* an escaped dollar, "$name" and "${name}" are placeholders, any other "$"
\* is invalid, and text up to the next "$" is copied.
Token(s, i, arch) ==
    IF s[i] # "$" THEN
        Ok([emit |-> SubSeq(s, i, NextDollar(s, i) - 1),
            next |-> NextDollar(s, i)])
    ELSE IF i + 1 <= Len(s) /\ s[i + 1] = "$" THEN
        Ok([emit |-> <<"$">>, next |-> i + 2])
    ELSE IF i + 1 <= Len(s) /\ IdStart(s[i + 1]) THEN
        Placeholder(Lookup(SubSeq(s, i + 1, i + IdRun(s, i + 1)), arch),
                    i + 1 + IdRun(s, i + 1))
    ELSE IF /\ i + 2 <= Len(s)
            /\ s[i + 1] = "{"
            /\ IdStart(s[i + 2])
            /\ i + 2 + IdRun(s, i + 2) <= Len(s)
            /\ s[i + 2 + IdRun(s, i + 2)] = "}" THEN
        Placeholder(Lookup(SubSeq(s, i + 2, i + 1 + IdRun(s, i + 2)), arch),
                    i + 3 + IdRun(s, i + 2))
    ELSE Raise("ValueError")

\* Template(s).substitute(arch=arch) from position i on, acc being the text
\* produced so far.
RECURSIVE Substitute(_, _, _, _)
Substitute(s, i, arch, acc) ==
    IF i > Len(s) THEN Ok(acc)
    ELSE Bind(Token(s, i, arch),
              LAMBDA t : Substitute(s, t.next, arch, acc \o t.emit))

-----------------------------------------------------------------------------
(* Repository, ImageRequest, ComposeRequest *)

NoKey == <<>>

Repository(baseurl, gpgkey) == [baseurl |-> baseurl, gpgkey |-> gpgkey]

\* Repository.as_dict(arch)
Repository_as_dict(repo, arch) ==
    Bind(Substitute(repo.baseurl, 1, arch, <<>>),
         LAMBDA url : IF repo.gpgkey # NoKey
                      THEN Ok([baseurl |-> url, gpgkey |-> repo.gpgkey])
                      ELSE Ok([baseurl |-> url]))

ImageRequest(arch, image_type, repos) ==
    [architecture |-> arch, image_type |-> image_type, repositories |-> repos]

\* A list comprehension over calls with outcomes rs: the list of their
\* values, or the exception of the first that raised.
Comprehension(rs) ==
    IF \E i \in DOMAIN rs : rs[i].err # ""
    THEN Raise(rs[CHOOSE i \in DOMAIN rs :
                      /\ rs[i].err # ""
                      /\ \A j \in 1..(i - 1) : rs[j].err = ""].err)
    ELSE Ok([k \in DOMAIN rs |-> rs[k].val])

\* ImageRequest.as_dict()
ImageRequest_as_dict(img) ==
    Bind(Comprehension([k \in DOMAIN img.repositories |->
            Repository_as_dict(img.repositories[k], img.architecture)]),
         LAMBDA repos : Ok([architecture |-> img.architecture,
                            image_type |-> img.image_type,
                            repositories |-> repos]))

\* ComposeRequest(distro, images, koji).as_dict()
ComposeRequest_as_dict(distro, imgs, koji) ==
    Bind(Comprehension([k \in DOMAIN imgs |-> ImageRequest_as_dict(imgs[k])]),
         LAMBDA reqs : Ok([distribution |-> distro,
                           koji |-> [server |-> koji],
                           image_requests |-> reqs]))

\* The nested loops of OSBuildImage.handler and compose_cmd: formats outer,
\* architectures inner, one ImageRequest appended per pair.
RECURSIVE ArchLoop(_, _, _, _)
ArchLoop(acc, fmt, arches, repos) ==
    IF arches = <<>> THEN acc
    ELSE ArchLoop(Append(acc, ImageRequest(Head(arches), fmt, repos)),
                  fmt, Tail(arches), repos)

RECURSIVE FormatLoop(_, _, _, _)
FormatLoop(acc, formats, arches, repos) ==
    IF formats = <<>> THEN acc
    ELSE FormatLoop(ArchLoop(acc, Head(formats), arches, repos),
                    Tail(formats), arches, repos)

\* Faulty variant: architectures outer, formats inner.
RECURSIVE FormatsOfArch(_, _, _, _)
FormatsOfArch(acc, arch, formats, repos) ==
    IF formats = <<>> THEN acc
    ELSE FormatsOfArch(Append(acc, ImageRequest(arch, Head(formats), repos)),
                       arch, Tail(formats), repos)

RECURSIVE ArchMajor(_, _, _, _)
ArchMajor(acc, formats, arches, repos) ==
    IF arches = <<>> THEN acc
    ELSE ArchMajor(FormatsOfArch(acc, Head(arches), formats, repos),
                   formats, Tail(arches), repos)

BuildImages_arch_major(formats, arches, repos) ==
    ArchMajor(<<>>, formats, arches, repos)

BuildImages(formats, arches, repos) == FormatLoop(<<>>, formats, arches, repos)

-----------------------------------------------------------------------------
(* ImageStatus, ComposeStatus *)

SUCCESS == <<"s", "u", "c", "c", "e", "s", "s">>
FAILED == <<"f", "a", "i", "l", "e", "d">>
PENDING == <<"p", "e", "n", "d", "i", "n", "g">>
RUNNING == <<"r", "u", "n", "n", "i", "n", "g">>
WAITING == <<"w", "a", "i", "t", "i", "n", "g">>
REGISTERING == <<"r", "e", "g", "i", "s", "t", "e", "r", "i", "n", "g">>
FINISHED == <<"f", "i", "n", "i", "s", "h", "e", "d">>
BUILDING == <<"b", "u", "i", "l", "d", "i", "n", "g">>
UPLOADING == <<"u", "p", "l", "o", "a", "d", "i", "n", "g">>

\* The values of enum ImageStatus.
ImageStatusValues ==
    {SUCCESS, FAILED, PENDING, BUILDING, UPLOADING, WAITING, FINISHED, RUNNING}

\* The string constants of class ComposeStatus.
ComposeStatusConstants ==
    {SUCCESS, FAILED, PENDING, RUNNING, WAITING, REGISTERING, FINISHED}

\* Faulty variant: any per-image status is accepted.
ImageStatus_open(value) == Ok(value)

\* ImageStatus(value): the enum lookup raises ValueError on an unknown value.
ImageStatus(value) ==
    IF value \in ImageStatusValues THEN Ok(value) ELSE Raise("ValueError")

\* Faulty variant: the statuses are taken as sent, not lower-cased.
from_dict_as_sent(data) ==
    IF "status" \notin DOMAIN data THEN Raise("KeyError")
    ELSE IF "koji_task_id" \notin DOMAIN data THEN Raise("KeyError")
    ELSE IF "image_statuses" \notin DOMAIN data THEN Raise("KeyError")
    ELSE Bind(Comprehension([k \in DOMAIN data.image_statuses |->
                  ImageStatus(data.image_statuses[k].status)]),
              LAMBDA imgs : Ok([status |-> data.status,
                                images |-> imgs,
                                koji_task_id |-> data.koji_task_id]))

\* ComposeStatus.from_dict(data)
from_dict(data) ==
    IF "status" \notin DOMAIN data THEN Raise("KeyError")
    ELSE IF "koji_task_id" \notin DOMAIN data THEN Raise("KeyError")
    ELSE IF "image_statuses" \notin DOMAIN data THEN Raise("KeyError")
    ELSE Bind(Comprehension([k \in DOMAIN data.image_statuses |->
                  ImageStatus(Lower(data.image_statuses[k].status))]),
              LAMBDA imgs : Ok([status |-> Lower(data.status),
                                images |-> imgs,
                                koji_task_id |-> data.koji_task_id]))

\* ComposeStatus.is_success
is_success(cs) == cs.status \in {SUCCESS, FINISHED}

\* Faulty variant: a failed compose does not count as finished.
is_finished_without_failed(cs) == is_success(cs)

\* ComposeStatus.is_finished
is_finished(cs) == IF is_success(cs) THEN TRUE ELSE cs.status \in {FAILED}


-----------------------------------------------------------------------------
(* Client *)

\* urllib.parse.urljoin(base, url) for an http(s) base: the end of the
\* base's "scheme://netloc" part.
NetlocEnd(base) ==
    CHOOSE e \in 1..Len(base) :
        \E c \in 1..(Len(base) - 2) :
            /\ SubSeq(base, c, c + 2) = <<":", "/", "/">>
            /\ \A b \in 1..(c - 1) : base[b] # ":"
            /\ e >= c + 2
            /\ \A k \in (c + 3)..e : base[k] # "/"
            /\ e < Len(base) => base[e + 1] = "/"

\* The base up to and including the last "/" of its path.
BaseDirectory(base) ==
    IF \E k \in (NetlocEnd(base) + 1)..Len(base) : base[k] = "/"
    THEN SubSeq(base, 1, CHOOSE k \in (NetlocEnd(base) + 1)..Len(base) :
                             /\ base[k] = "/"
                             /\ \A j \in (k + 1)..Len(base) : base[j] # "/")
    ELSE SubSeq(base, 1, NetlocEnd(base)) \o <<"/">>

\* urljoin(base, url) for a reference made of a path without dot segments:
\* a path starting with "/" replaces the path of the base, any other path
\* replaces the last segment of the base's path.
urljoin(base, url) ==
    IF url = <<>> THEN base
    ELSE IF url[1] = "/" THEN SubSeq(base, 1, NetlocEnd(base)) \o url
    ELSE BaseDirectory(base) \o url

\* Client.__init__
Client(url) == [url |-> url]

\* Client.compose_create: url = urljoin(self.url, "/compose")
compose_create_url(self) ==
    urljoin(self.url, <<"/", "c", "o", "m", "p", "o", "s", "e">>)

\* Faulty variant: the status of one fixed compose is asked for.
compose_status_url_fixed(self, compose_id) ==
    urljoin(self.url, <<"/", "c", "o", "m", "p", "o", "s", "e", "/", "c", "1">>)

\* Client.compose_status: url = urljoin(self.url, f"/compose/{compose_id}")
compose_status_url(self, compose_id) ==
    urljoin(self.url, <<"/", "c", "o", "m", "p", "o", "s", "e", "/">> \o compose_id)

NoId == <<>>
NoStatus == [status |-> <<>>, images |-> <<>>, koji_task_id |-> <<>>]
NoResult == [pending |-> TRUE]

\* Faulty variant: the compose id is not the one the service answered.
compose_create_wrong_id(distro, imgs, koji, resp) ==
    Bind(ComposeRequest_as_dict(distro, imgs, koji),
         LAMBDA body :
            IF resp.kind = "error" THEN Raise("URLError")
            ELSE IF resp.kind = "text" THEN Raise("JSONDecodeError")
            ELSE IF "id" \notin DOMAIN resp.data THEN Raise("KeyError")
            ELSE Ok(distro))

\* Client.compose_create(distro, images, koji) against the service's answer
\* resp: the request is serialized first, then sent; the answer's "id" is the
\* compose id.
compose_create(distro, imgs, koji, resp) ==
    Bind(ComposeRequest_as_dict(distro, imgs, koji),
         LAMBDA body :
            IF resp.kind = "error" THEN Raise("URLError")
            ELSE IF resp.kind = "text" THEN Raise("JSONDecodeError")
            ELSE IF "id" \notin DOMAIN resp.data THEN Raise("KeyError")
            ELSE Ok(resp.data.id))

\* Whether compose_create got as far as sending its request.
compose_create_sends(distro, imgs, koji) ==
    ComposeRequest_as_dict(distro, imgs, koji).err = ""

\* Client.compose_status(compose_id) against the service's answer resp.
compose_status(resp) ==
    IF resp.kind = "error" THEN Raise("URLError")
    ELSE IF resp.kind = "text" THEN Raise("JSONDecodeError")
    ELSE from_dict(resp.data)

\* Faulty variant: the loop ends on success only, a failed compose is waited on.
wait_for_compose_success_only(r, n) ==
    IF r.err # "" THEN "raised"
    ELSE IF is_success(r.val) THEN "returned"
    ELSE "sleep"

\* Faulty variant: a poll that raised ends the wait as if it had returned.
wait_for_compose_swallows_error(r, n) ==
    IF r.err # "" THEN "returned"
    ELSE IF is_finished(r.val) THEN "returned"
    ELSE "sleep"

\* Faulty variant: the loop gives up after two polls.
wait_for_compose_two_attempts(r, n) ==
    IF r.err # "" THEN "raised"
    ELSE IF is_finished(r.val) THEN "returned"
    ELSE IF n >= 2 THEN "raised"
    ELSE "sleep"

\* Faulty variant: a poll that raised is retried after the sleep.
wait_for_compose_retries(r, n) ==
    IF r.err # "" THEN "sleep"
    ELSE IF is_finished(r.val) THEN "returned"
    ELSE "sleep"

\* One iteration of the loop of Client.wait_for_compose on the outcome r of
\* its n-th compose_status call: where control goes next.
wait_for_compose(r, n) ==
    IF r.err # "" THEN "raised"
    ELSE IF is_finished(r.val) THEN "returned"
    ELSE "sleep"

\* One iteration of the loop of compose_cmd.
compose_cmd_loop(r, n) ==
    IF r.err # "" THEN "raised"
    ELSE IF is_finished(r.val) THEN "returned"
    ELSE "sleep"

-----------------------------------------------------------------------------
(* The compose service and the callers' inputs *)

Upper(s) == [i \in DOMAIN s |-> UpperChar(s[i])]
Title(s) == [i \in DOMAIN s |-> IF i = 1 THEN UpperChar(s[i]) ELSE s[i]]
Alternate(s) == [i \in DOMAIN s |-> IF i % 2 = 0 THEN UpperChar(s[i]) ELSE s[i]]
Casings(w) == {w, Upper(w), Title(w), Alternate(w)}

BOGUS == <<"b", "o", "g", "u", "s">>
TaskId == <<"4", "2">>

SeqsUpTo(S, n) == UNION {[1..k -> S] : k \in 0..n}
NonEmptySeqsUpTo(S, n) == UNION {[1..k -> S] : k \in 1..n}

TransportError == [kind |-> "error"]
NotJson == [kind |-> "text"]

\* A status document as the service sends it.
StatusDoc(s, imgs) ==
    [kind |-> "json",
     data |-> [status |-> s, koji_task_id |-> TaskId,
               image_statuses |-> [k \in DOMAIN imgs |-> [status |-> imgs[k]]]]]

MalformedDocs ==
    {[kind |-> "json", data |-> [koji_task_id |-> TaskId, image_statuses |-> <<>>]],
     [kind |-> "json", data |-> [status |-> PENDING, image_statuses |-> <<>>]],
     [kind |-> "json", data |-> [status |-> PENDING, koji_task_id |-> TaskId]]}

WireStatuses ==
    UNION {Casings(w) : w \in ComposeStatusConstants \cup {BUILDING, BOGUS}}

WireImageStatuses ==
    ImageStatusValues \cup
        {Upper(FAILED), Title(SUCCESS), Alternate(BUILDING), Upper(REGISTERING), BOGUS}

\* Answers to the single query of the status command: every top-level
\* status with a few image lists, and a few top-level statuses with every
\* image list.
StatusResponses ==
    {TransportError, NotJson} \cup MalformedDocs \cup
        {StatusDoc(s, imgs) :
            s \in WireStatuses,
            imgs \in SeqsUpTo({SUCCESS, Upper(FAILED), BOGUS}, MaxImages)} \cup
        {StatusDoc(s, imgs) :
            s \in {SUCCESS, Upper(FAILED), Alternate(RUNNING)},
            imgs \in SeqsUpTo(WireImageStatuses, MaxImages)}

\* Answers to the polls of wait_for_compose under the handler.
HandlerPollResponses ==
    {TransportError,
     StatusDoc(Upper(RUNNING), <<BUILDING>>),
     StatusDoc(BOGUS, <<>>),
     StatusDoc(RUNNING, <<BOGUS>>),
     StatusDoc(Title(SUCCESS), <<SUCCESS>>),
     StatusDoc(FINISHED, <<Upper(FINISHED)>>),
     StatusDoc(Upper(FAILED), <<Upper(FAILED)>>)}

\* Answers to the polls of wait_for_compose under the wait command.
PollResponses ==
    {TransportError,
     [kind |-> "json", data |-> [status |-> PENDING, image_statuses |-> <<>>]],
     StatusDoc(PENDING, <<>>),
     StatusDoc(Upper(RUNNING), <<BUILDING>>),
     StatusDoc(BOGUS, <<>>),
     StatusDoc(RUNNING, <<BOGUS>>),
     StatusDoc(Title(SUCCESS), <<SUCCESS>>),
     StatusDoc(FINISHED, <<Upper(FINISHED)>>),
     StatusDoc(Upper(FAILED), <<Upper(FAILED)>>)}

\* Answers to the polls of the compose command.
ComposeCmdResponses ==
    {TransportError,
     StatusDoc(Upper(RUNNING), <<BUILDING>>),
     StatusDoc(SUCCESS, <<SUCCESS>>),
     StatusDoc(Upper(FAILED), <<FAILED>>)}

C1Id == <<"c", "1">>
Abc123Id == <<"a", "b", "c", "-", "1", "2", "3">>

\* Answers to POST /compose.
CreateResponses ==
    {TransportError,
     [kind |-> "json", data |-> [id |-> C1Id]],
     [kind |-> "json", data |-> [id |-> Abc123Id]],
     [kind |-> "json", data |-> [message |-> BOGUS]]}

X86_64 == <<"x", "8", "6", "_", "6", "4">>
AARCH64 == <<"a", "a", "r", "c", "h", "6", "4">>
Architectures == {X86_64, AARCH64}

QCOW2 == <<"q", "c", "o", "w", "2">>
AMI == <<"a", "m", "i">>
Formats == {QCOW2, AMI}

Fedora == <<"f", "e", "d", "o", "r", "a">>
Versions == {<<"3", "2">>}
Targets == {"f32-candidate", "f33-candidate"}
Options == {[skip_tag |-> FALSE], [skip_tag |-> TRUE]}

RepoTemplates ==
    {<<"h", "t", "t", "p", ":", "/", "/", "r", "/", "$", "a", "r", "c", "h", "/", "o", "s", "/">>,
     <<"h", "t", "t", "p", ":", "/", "/", "r", "/", "$", "{", "a", "r", "c", "h", "}", "/", "$", "$", "x">>,
     <<"h", "t", "t", "p", ":", "/", "/", "r", "/", "$", "b", "a", "s", "e", "a", "r", "c", "h", "/">>,
     <<"h", "t", "t", "p", ":", "/", "/", "r", "/", "$", "/", "o", "s">>}

\* --url: the default, and a base URL with a path of its own.
Urls ==
    {<<"h", "t", "t", "p", ":", "/", "/", "l", "o", "c", "a", "l", "h", "o", "s", "t", ":", "8", "7", "0", "1", "/">>,
     <<"h", "t", "t", "p", ":", "/", "/", "h", "o", "s", "t", "/", "a", "p", "i", "/", "v", "1", "/">>}

\* The arguments OSBuildImage.handler is invoked with.
HandlerArgs ==
    [name : {Fedora}, version : Versions,
     arches : SeqsUpTo(Architectures, MaxArches),
     target : Targets, opts : Options]

\* The parsed command line of the compose command: one REPO, one or more
\* ARCHITECTURE, any number of --format.
ComposeCmdArgs ==
    [distro : {Fedora}, repo : {<<u>> : u \in RepoTemplates},
     arch : NonEmptySeqsUpTo(Architectures, MaxArches),
     koji : {<<"h", "t", "t", "p", "s", ":", "/", "/", "l", "o", "c", "a", "l", "h", "o", "s", "t", "/", "k", "o", "j", "i", "h", "u", "b">>},
     format : SeqsUpTo(Formats, MaxFormats),
     url : Urls]

\* The parsed command line of the status and wait commands.
IdArgs == [id : {C1Id, Abc123Id}, url : Urls]

-----------------------------------------------------------------------------
(* plugins/hub/osbuild.py: the values of a call and OSBUILD_IMAGE_SCHEMA *)

\* Python values as they arrive in a call of the hub, each type with its own
\* field.
None == [type |-> "NoneType"]
Str(s) == [type |-> "str", str |-> s]
Int(n) == [type |-> "int", int |-> n]
Bool(b) == [type |-> "bool", bool |-> b]
List(xs) == [type |-> "list", items |-> xs]
Dict(d) == [type |-> "dict", fields |-> d]
EmptyDict == Dict([k \in {} |-> None])

\* {"type": "string"}
IsString(v) == v.type = "str"

\* {"type": "array", "items": {"type": "string"}}
IsStringArray(v) ==
    /\ v.type = "list"
    /\ \A k \in DOMAIN v.items : IsString(v.items[k])

\* An object schema with additionalProperties false whose properties are
\* strings (strs) and arrays of strings (arrays), some of them required.
IsObjectOf(v, required, strs, arrays) ==
    /\ v.type = "dict"
    /\ required \subseteq DOMAIN v.fields
    /\ DOMAIN v.fields \subseteq strs \cup arrays
    /\ \A k \in DOMAIN v.fields :
          IF k \in strs THEN IsString(v.fields[k]) ELSE IsStringArray(v.fields[k])

\* #/definitions/repo
repo_schema(v) == IsObjectOf(v, {}, {"baseurl"}, {"package_sets"})

\* #/definitions/ostree
ostree_schema(v) == IsObjectOf(v, {}, {"parent", "ref", "url"}, {})

\* The anyOf of upload_options.
upload_options_schema(v) ==
    \/ IsObjectOf(v, {"region", "share_with_accounts"},
                  {"region", "snapshot_name"}, {"share_with_accounts"})
    \/ IsObjectOf(v, {"region"}, {"region"}, {})
    \/ IsObjectOf(v, {"region"}, {"region", "bucket", "image_name"},
                  {"share_with_accounts"})
    \/ IsObjectOf(v, {"tenant_id", "subscription_id", "resource_group"},
                  {"tenant_id", "subscription_id", "resource_group",
                   "location", "image_name"}, {})
    \/ IsObjectOf(v, {}, {"name", "tag"}, {})

\* #/definitions/options
options_schema(v) ==
    /\ v.type = "dict"
    /\ DOMAIN v.fields \subseteq {"customizations", "ostree", "upload_options",
                                 "repo", "release", "skip_tag"}
    /\ "customizations" \in DOMAIN v.fields => v.fields.customizations.type = "dict"
    /\ "ostree" \in DOMAIN v.fields => ostree_schema(v.fields.ostree)
    /\ "upload_options" \in DOMAIN v.fields =>
           upload_options_schema(v.fields.upload_options)
    /\ "repo" \in DOMAIN v.fields =>
           /\ v.fields.repo.type = "list"
           /\ \A k \in DOMAIN v.fields.repo.items :
                 (IsString(v.fields.repo.items[k]) /\ ~repo_schema(v.fields.repo.items[k]))
                 \/ (~IsString(v.fields.repo.items[k]) /\ repo_schema(v.fields.repo.items[k]))
    /\ "release" \in DOMAIN v.fields => IsString(v.fields.release)
    /\ "skip_tag" \in DOMAIN v.fields => v.fields.skip_tag.type = "bool"

\* The oneOf of items[3]: a string, or an array of exactly one string.
image_type_schema(v) ==
    (IsString(v) /\ ~(IsStringArray(v) /\ Len(v.items) = 1))
    \/ (~IsString(v) /\ IsStringArray(v) /\ Len(v.items) >= 1 /\ Len(v.items) <= 1)

\* jsonschema.validate(args, OSBUILD_IMAGE_SCHEMA): whether args is valid.
OSBUILD_IMAGE_SCHEMA(a) ==
    /\ Len(a) >= 7
    /\ IsString(a[1])
    /\ IsString(a[2])
    /\ IsString(a[3])
    /\ image_type_schema(a[4])
    /\ IsString(a[5])
    /\ IsStringArray(a[6]) /\ Len(a[6].items) >= 1
    /\ options_schema(a[7])

\* The callers of the hub: whether assertPerm("image") lets the caller
\* through, and whether hasPerm("admin") holds.
Sessions ==
    {[image |-> FALSE, admin |-> FALSE],
     [image |-> TRUE, admin |-> FALSE],
     [image |-> TRUE, admin |-> TRUE]}

ImageTypeArgs ==
    {Str(QCOW2), List(<<Str(QCOW2)>>), List(<<>>), List(<<Str(QCOW2), Str(AMI)>>),
     Int(5)}

ArchesArgs ==
    {List(<<Str(X86_64)>>), List(<<Str(X86_64), Str(AARCH64)>>), List(<<>>),
     Str(X86_64)}

OptsArgs ==
    {None, EmptyDict,
     Dict([release |-> Str(<<"1">>)]),
     Dict([skip_tag |-> Bool(TRUE), repo |-> List(<<Str(<<"r">>)>>)]),
     Dict([skip_tag |-> Str(<<"y", "e", "s">>)]),
     Dict([priority |-> Int(5)]),
     Dict([upload_options |-> Dict([region |-> Str(<<"e", "u">>)])])}

Priorities == {None, Int(0), Int(5), Int(0 - 1), Str(<<"h", "i", "g", "h">>)}

\* The calls of osbuildImage.
HubCalls ==
    [name : {Str(Fedora), None},
     version : {Str(<<"3", "2">>)},
     distro : {Str(Fedora \o <<"-", "3", "2">>)},
     image_type : ImageTypeArgs,
     target : {Str(<<"f", "3", "2">>)},
     arches : ArchesArgs,
     opts : OptsArgs,
     priority : Priorities,
     session : Sessions]

ArgsOf(c) ==
    IF c = "handler" THEN HandlerArgs
    ELSE IF c = "compose" THEN ComposeCmdArgs
    ELSE IF c = "hub" THEN HubCalls
    ELSE IdArgs

-----------------------------------------------------------------------------
(* OSBuildImage *)

\* OSBuildImage.__init__
composer_url == <<"h", "t", "t", "p", ":", "/", "/", "c", "o", "m", "p", "o", "s", "e", "r", ":", "8", "7", "0", "1", "/">>
koji_url == <<"h", "t", "t", "p", "s", ":", "/", "/", "l", "o", "c", "a", "l", "h", "o", "s", "t", "/", "k", "o", "j", "i", "h", "u", "b">>

\* Locals of OSBuildImage.handler
repo_url == <<"h", "t", "t", "p", ":", "/", "/", "d", "o", "w", "n", "l", "o", "a", "d", ".", "f", "e", "d", "o", "r", "a", "p", "r", "o", "j", "e", "c", "t", ".", "o", "r", "g", "/", "p", "u", "b", "/", "f", "e", "d", "o", "r", "a", "/", "l", "i", "n", "u", "x", "/", "r", "e", "l", "e", "a", "s", "e", "s", "/", "3", "2", "/", "E", "v", "e", "r", "y", "t", "h", "i", "n", "g", "/", "$", "a", "r", "c", "h", "/", "o", "s", "/">>

\* Faulty variant: a second format is requested.
handler_formats_two == <<QCOW2, AMI>>

handler_formats == <<QCOW2>>
handler_repos == <<Repository(repo_url, NoKey)>>
handler_distro(name, version) == name \o <<"-">> \o version

\* The images OSBuildImage.handler builds for arches.
handler_images(arches) == BuildImages(handler_formats, arches, handler_repos)

\* Faulty variant: a build is reported whatever the status.
handler_result_always_build(cs, id) ==
    [koji_builds |-> <<>>, build |-> id \o <<"-", "1", "-", "1">>]

\* The value OSBuildImage.handler returns for the status its wait ended with.
handler_result(cs, id) ==
    IF ~is_success(cs) THEN [koji_builds |-> <<>>]
    ELSE [koji_builds |-> <<>>, build |-> id \o <<"-", "1", "-", "1">>]

\* compose_cmd: formats = args.format or ["qcow2"]
compose_cmd_formats(a) == IF a.format # <<>> THEN a.format ELSE <<QCOW2>>

\* compose_cmd: repos = [Repository(url) for url in args.repo]
compose_cmd_repos(a) == [k \in DOMAIN a.repo |-> Repository(a.repo[k], NoKey)]

compose_cmd_images(a) ==
    BuildImages(compose_cmd_formats(a), a.arch, compose_cmd_repos(a))

-----------------------------------------------------------------------------
(* The state machine *)

Init ==
    /\ cmd \in {"handler", "compose", "status", "wait", "hub"}
    /\ args \in ArgsOf(cmd)
    /\ pc = "start"
    /\ images = <<>>
    /\ posts = <<>>
    /\ cid = NoId
    /\ observed = <<>>
    /\ polls = 0
    /\ polled = {}
    /\ status = NoStatus
    /\ result = NoResult
    /\ error = ""
    /\ client = IF cmd = "handler" THEN Client(composer_url)
                ELSE IF cmd = "hub" THEN Client(<<>>)
                ELSE Client(args.url)
    /\ gets = {}
    /\ task_args = <<>>
    /\ tasks = <<>>
    /\ h = <<>>
    /\ served = <<>>

\* The service's possible answers to the next poll: any answer of S while the
\* model records answers, its last answer again afterwards.
Answers(S) == IF polls < MaxPolls THEN S ELSE {observed[Len(observed)]}

\* The bookkeeping of one compose_status call answered by resp.
Polled(resp) ==
    /\ observed' = IF polls < MaxPolls THEN Append(observed, resp) ELSE observed
    /\ polls' = IF polls < MaxPolls THEN polls + 1 ELSE polls
    /\ polled' = polled \cup {cid}
    /\ gets' = gets \cup {compose_status_url(client, cid)}

\* OSBuildImage.handler up to the return of compose_create: the request is
\* built and submitted.
handler_submit ==
    /\ cmd = "handler"
    /\ pc = "start"
    /\ \E resp \in CreateResponses,
          distro \in {handler_distro(args.name, args.version)},
          imgs \in {handler_images(args.arches)} :
        \E logged \in {ComposeRequest_as_dict(distro, imgs, koji_url)},
           r \in {compose_create(distro, imgs, koji_url, resp)} :
            /\ images' = imgs
            /\ IF logged.err # ""
               THEN /\ posts' = posts
                    /\ cid' = cid
                    /\ error' = logged.err
                    /\ pc' = "raised"
               ELSE /\ posts' = IF compose_create_sends(distro, imgs, koji_url)
                                THEN Append(posts, [url |-> compose_create_url(client),
                                                    body |-> logged.val,
                                                    answer |-> resp])
                                ELSE posts
                    /\ cid' = IF r.err = "" THEN r.val ELSE cid
                    /\ error' = r.err
                    /\ pc' = IF r.err = "" THEN "poll" ELSE "raised"
    /\ UNCHANGED <<hub_vars, conc_vars, client, gets, cmd, args, observed, polls, polled, status, result>>

\* compose_cmd up to the return of compose_create.
compose_cmd_submit ==
    /\ cmd = "compose"
    /\ pc = "start"
    /\ \E resp \in CreateResponses, imgs \in {compose_cmd_images(args)} :
        \E body \in {ComposeRequest_as_dict(args.distro, imgs, args.koji)},
           r \in {compose_create(args.distro, imgs, args.koji, resp)} :
            /\ images' = imgs
            /\ posts' = IF compose_create_sends(args.distro, imgs, args.koji)
                        THEN Append(posts, [url |-> compose_create_url(client),
                                            body |-> body.val,
                                            answer |-> resp])
                        ELSE posts
            /\ cid' = IF r.err = "" THEN r.val ELSE cid
            /\ error' = r.err
            /\ pc' = IF r.err = "" THEN "poll" ELSE "raised"
    /\ UNCHANGED <<hub_vars, conc_vars, client, gets, cmd, args, observed, polls, polled, status, result>>

\* wait_cmd up to its call of wait_for_compose(args.id).
wait_cmd_start ==
    /\ cmd = "wait"
    /\ pc = "start"
    /\ cid' = args.id
    /\ pc' = "poll"
    /\ UNCHANGED <<hub_vars, conc_vars, client, gets, cmd, args, images, posts, observed, polls, polled, status,
                   result, error>>

\* One iteration of Client.wait_for_compose, up to its return, its raise or
\* its sleep.
wait_for_compose_poll ==
    /\ cmd \in {"handler", "wait"}
    /\ pc = "poll"
    /\ \E resp \in Answers(IF cmd = "handler" THEN HandlerPollResponses
                            ELSE PollResponses) :
        \E r \in {compose_status(resp)} :
            /\ Polled(resp)
            /\ status' = IF r.err = "" THEN r.val ELSE status
            /\ error' = r.err
            /\ pc' = wait_for_compose(r, polls + 1)
    /\ UNCHANGED <<hub_vars, conc_vars, client, cmd, args, images, posts, cid, result>>

\* One iteration of the loop of compose_cmd.
compose_cmd_poll ==
    /\ cmd = "compose"
    /\ pc = "poll"
    /\ \E resp \in Answers(ComposeCmdResponses) :
        \E r \in {compose_status(resp)} :
            /\ Polled(resp)
            /\ status' = IF r.err = "" THEN r.val ELSE status
            /\ error' = r.err
            /\ pc' = compose_cmd_loop(r, polls + 1)
    /\ UNCHANGED <<hub_vars, conc_vars, client, cmd, args, images, posts, cid, result>>

\* time.sleep() between two polls.
sleep ==
    /\ pc = "sleep"
    /\ pc' = "poll"
    /\ UNCHANGED <<hub_vars, conc_vars, client, gets, cmd, args, images, posts, cid, observed, polls, polled,
                   status, result, error>>

\* OSBuildImage.handler after wait_for_compose returned: the task result.
handler_return ==
    /\ cmd = "handler"
    /\ pc = "returned"
    /\ result' = handler_result(status, cid)
    /\ pc' = "done"
    /\ UNCHANGED <<hub_vars, conc_vars, client, gets, cmd, args, images, posts, cid, observed, polls, polled,
                   status, error>>

\* show_compose(status) at the end of compose_cmd and wait_cmd.
show_compose ==
    /\ cmd \in {"compose", "wait"}
    /\ pc = "returned"
    /\ result' = [shown |-> status]
    /\ pc' = "done"
    /\ UNCHANGED <<hub_vars, conc_vars, client, gets, cmd, args, images, posts, cid, observed, polls, polled,
                   status, error>>

\* status_cmd: one compose_status call, then show_compose.
status_cmd ==
    /\ cmd = "status"
    /\ pc = "start"
    /\ \E resp \in StatusResponses :
        \E r \in {compose_status(resp)} :
            /\ cid' = args.id
            /\ observed' = <<resp>>
            /\ polls' = 1
            /\ polled' = {args.id}
            /\ gets' = {compose_status_url(client, args.id)}
            /\ status' = IF r.err = "" THEN r.val ELSE status
            /\ result' = IF r.err = "" THEN [shown |-> r.val] ELSE result
            /\ error' = r.err
            /\ pc' = IF r.err = "" THEN "done" ELSE "raised"
    /\ UNCHANGED <<hub_vars, conc_vars, client, cmd, args, images, posts>>

-----------------------------------------------------------------------------
(* plugins/hub/osbuild.py: osbuildImage *)

\* The parameters of OSBuildImage.handler, in order.
handler_parameters == <<"name", "version", "arches", "target", "opts">>

\* The call handler(*params): the positional arguments are bound to the
\* parameters one to one, a wrong number of them raises TypeError.
handler_bind(params) ==
    IF Len(params) # Len(handler_parameters) THEN Raise("TypeError")
    ELSE Ok([name |-> params[1], version |-> params[2], arches |-> params[3],
             target |-> params[4], opts |-> params[5]])

\* args = [name, version, distro, image_type, target, arches, opts]
osbuildImage_args(c, image_type) ==
    <<c.name, c.version, c.distro, image_type, c.target, c.arches, c.opts>>

\* Faulty variant: the task options carry the priority.
task_options_with_priority(priority) ==
    IF priority.type = "int"
    THEN [channel |-> "image", priority |-> priority.int]
    ELSE [channel |-> "image"]

\* task = {"channel": "image"}
task_options(priority) == [channel |-> "image"]

\* Faulty variant: the list is kept.
image_type_kept(image_type) == image_type

\* if isinstance(image_type, list): image_type = image_type[0]
image_type_converted(image_type) ==
    IF image_type.type = "list" THEN image_type.items[1] ELSE image_type

\* Truth value of a Python object.
Truthy(v) ==
    IF v.type = "NoneType" THEN FALSE
    ELSE IF v.type = "int" THEN v.int # 0
    ELSE IF v.type = "bool" THEN v.bool
    ELSE IF v.type = "str" THEN Len(v.str) > 0
    ELSE IF v.type = "list" THEN Len(v.items) > 0
    ELSE DOMAIN v.fields # {}

\* Faulty variant: any priority is let through.
priority_check_open(priority, session) == ""

\* if priority and priority < 0 and not hasPerm('admin'): raise: the
\* exception raised, "" when none is.  Comparing a str with 0 raises
\* TypeError.
priority_check(priority, session) ==
    IF ~Truthy(priority) THEN ""
    ELSE IF priority.type \notin {"int", "bool"} THEN "TypeError"
    ELSE IF priority.type = "int" /\ priority.int < 0 /\ ~session.admin
    THEN "ActionNotAllowed"
    ELSE ""

\* context.session.assertPerm("image"), then the locals args and task.
hub_assertPerm ==
    /\ cmd = "hub"
    /\ pc = "start"
    /\ IF args.session.image
       THEN /\ task_args' = osbuildImage_args(args, args.image_type)
            /\ pc' = "validate"
            /\ error' = error
       ELSE /\ task_args' = task_args
            /\ pc' = "raised"
            /\ error' = "ActionNotAllowed"
    /\ UNCHANGED <<conc_vars, client, gets, tasks, cmd, args, images, posts, cid,
                   observed, polls, polled, status, result>>

\* jsonschema.validate(args, OSBUILD_IMAGE_SCHEMA); a ValidationError is
\* raised again as koji.ParameterError.
hub_validate ==
    /\ cmd = "hub"
    /\ pc = "validate"
    /\ IF OSBUILD_IMAGE_SCHEMA(task_args)
       THEN pc' = "convert" /\ error' = error
       ELSE pc' = "raised" /\ error' = "ParameterError"
    /\ UNCHANGED <<hub_vars, conc_vars, client, gets, cmd, args, images, posts,
                   cid, observed, polls, polled, status, result>>

\* The backwards-compatibility conversion of image_type.
hub_convert ==
    /\ cmd = "hub"
    /\ pc = "convert"
    /\ task_args' = IF task_args[4].type = "list"
                    THEN osbuildImage_args(args, image_type_converted(task_args[4]))
                    ELSE task_args
    /\ pc' = "priority"
    /\ UNCHANGED <<conc_vars, client, gets, tasks, cmd, args, images, posts, cid,
                   observed, polls, polled, status, result, error>>

\* The admission check on priority.
hub_priority ==
    /\ cmd = "hub"
    /\ pc = "priority"
    /\ error' = priority_check(args.priority, args.session)
    /\ pc' = IF priority_check(args.priority, args.session) = ""
             THEN "make_task" ELSE "raised"
    /\ UNCHANGED <<hub_vars, conc_vars, client, gets, cmd, args, images, posts,
                   cid, observed, polls, polled, status, result>>

\* kojihub.make_task('osbuildImage', args, **task)
hub_make_task ==
    /\ cmd = "hub"
    /\ pc = "make_task"
    /\ tasks' = Append(tasks, [method |-> "osbuildImage",
                               args |-> task_args,
                               opts |-> task_options(args.priority)])
    /\ pc' = "done"
    /\ UNCHANGED <<conc_vars, client, gets, task_args, cmd, args, images, posts,
                   cid, observed, polls, polled, status, result, error>>

Next ==
    \/ handler_submit
    \/ compose_cmd_submit
    \/ wait_cmd_start
    \/ wait_for_compose_poll
    \/ compose_cmd_poll
    \/ sleep
    \/ handler_return
    \/ show_compose
    \/ status_cmd
    \/ hub_assertPerm
    \/ hub_validate
    \/ hub_convert
    \/ hub_priority
    \/ hub_make_task

Spec == Init /\ [][Next]_vars

\* wait_for_compose runs on one thread that is never suspended for good: its
\* poll is made and answered, and its sleep ends.
FairSpec == Spec /\ WF_vars(wait_for_compose_poll) /\ WF_vars(sleep)

-----------------------------------------------------------------------------
(* Two OSBuildImage.handler invocations running side by side *)

Handlers == {1, 2}

\* The arguments of the two invocations.
ConcurrentArgs ==
    [name : {Fedora}, version : Versions,
     arches : {<<X86_64>>, <<X86_64, AARCH64>>},
     target : {"f32-candidate"}, opts : {[skip_tag |-> FALSE]}]

\* Answers of the service to a poll of either invocation.
ConcurrentPollResponses ==
    {TransportError,
     StatusDoc(Upper(RUNNING), <<BUILDING>>),
     StatusDoc(SUCCESS, <<SUCCESS>>),
     StatusDoc(Upper(FAILED), <<FAILED>>)}

\* The URLs under which the service keeps the status of its composes.
StatusUrls ==
    {urljoin(composer_url, <<"/", "c", "o", "m", "p", "o", "s", "e", "/">> \o id) :
        id \in {C1Id, Abc123Id}}

\* The service gives every compose an id of its own.
FreshId == IF served.issued = 0 THEN C1Id ELSE Abc123Id

\* OSBuildImage.__init__ for each invocation: a Client of its own; the
\* locals of handler are those of its own call.
ConcurrentInit ==
    /\ cmd = "handlers"
    /\ args = <<>>
    /\ pc = "start"
    /\ images = <<>>
    /\ posts = <<>>
    /\ cid = NoId
    /\ observed = <<>>
    /\ polls = 0
    /\ polled = {}
    /\ status = NoStatus
    /\ result = NoResult
    /\ error = ""
    /\ client = Client(composer_url)
    /\ gets = {}
    /\ task_args = <<>>
    /\ tasks = <<>>
    /\ h \in [Handlers ->
                [args : ConcurrentArgs, client : {Client(composer_url)},
                 pc : {"start"}, created : {<<>>}, cid : {NoId},
                 observed : {<<>>}, polls : {0}, status : {NoStatus},
                 result : {NoResult}, error : {""}]]
    /\ served = [issued |-> 0, answers |-> [u \in StatusUrls |-> <<>>]]

main_vars == <<cmd, args, pc, images, posts, cid, observed, polls, polled,
               status, result, error, client, gets, hub_vars>>

\* Invocation p up to the return of compose_create.
concurrent_submit(p) ==
    /\ h[p].pc = "start"
    /\ \E resp \in {TransportError, [kind |-> "json", data |-> [id |-> FreshId]]} :
        \E r \in {compose_create(handler_distro(h[p].args.name, h[p].args.version),
                                 handler_images(h[p].args.arches), koji_url, resp)} :
            /\ h' = [h EXCEPT ![p].created = <<resp>>,
                              ![p].cid = IF r.err = "" THEN r.val ELSE @,
                              ![p].error = r.err,
                              ![p].pc = IF r.err = "" THEN "poll" ELSE "raised"]
            /\ served' = [served EXCEPT !.issued = IF resp.kind = "json"
                                                   THEN @ + 1 ELSE @]
    /\ UNCHANGED main_vars

\* One iteration of wait_for_compose in invocation p: the service answers
\* the URL asked for.
concurrent_poll(p) ==
    /\ h[p].pc = "poll"
    /\ \E resp \in IF h[p].polls < MaxPolls THEN ConcurrentPollResponses
                   ELSE {h[p].observed[Len(h[p].observed)]} :
        \E r \in {compose_status(resp)},
           u \in {compose_status_url(h[p].client, h[p].cid)} :
            /\ h' = [h EXCEPT ![p].observed = IF h[p].polls < MaxPolls
                                               THEN Append(@, resp) ELSE @,
                              ![p].polls = IF h[p].polls < MaxPolls
                                            THEN @ + 1 ELSE @,
                              ![p].status = IF r.err = "" THEN r.val ELSE @,
                              ![p].error = r.err,
                              ![p].pc = wait_for_compose(r, h[p].polls + 1)]
            /\ served' = [served EXCEPT !.answers[u] =
                              IF h[p].polls < MaxPolls THEN Append(@, resp) ELSE @]
    /\ UNCHANGED main_vars

\* time.sleep() in invocation p.
concurrent_sleep(p) ==
    /\ h[p].pc = "sleep"
    /\ h' = [h EXCEPT ![p].pc = "poll"]
    /\ UNCHANGED <<main_vars, served>>

\* Invocation p after wait_for_compose returned.
concurrent_return(p) ==
    /\ h[p].pc = "returned"
    /\ h' = [h EXCEPT ![p].result = handler_result(h[p].status, h[p].cid),
                      ![p].pc = "done"]
    /\ UNCHANGED <<main_vars, served>>

ConcurrentNext ==
    \E p \in Handlers :
        \/ concurrent_submit(p)
        \/ concurrent_poll(p)
        \/ concurrent_sleep(p)
        \/ concurrent_return(p)

ConcurrentSpec == ConcurrentInit /\ [][ConcurrentNext]_vars

-----------------------------------------------------------------------------
(* Properties *)

\* The terminal statuses of a compose.
TerminalStatuses == {SUCCESS, FINISHED, FAILED}

\* The poll answered by resp raises.
Raises(resp) == compose_status(resp).err # ""

\* The poll answered by resp yields a terminal status.
Terminal(resp) ==
    /\ ~Raises(resp)
    /\ compose_status(resp).val.status \in TerminalStatuses

\* The k-th answer is the first terminal one and no earlier poll raises.
FirstTerminalAt(k) ==
    /\ k \in DOMAIN observed
    /\ Terminal(observed[k])
    /\ \A j \in 1..(k - 1) : ~Terminal(observed[j]) /\ ~Raises(observed[j])

Waiting == cmd \in {"handler", "wait"}
InLoop == pc \in {"poll", "sleep"}

\* C1: when the first terminal status is the k-th answer and no earlier poll
\* raised, wait_for_compose has made exactly k compose_status calls, has
\* returned the ComposeStatus of the k-th answer, and polls no further.
C1_ReturnsAtFirstTerminal ==
    Waiting =>
        \A k \in DOMAIN observed :
            FirstTerminalAt(k) =>
                /\ pc \in {"returned", "done"}
                /\ polls = k
                /\ Len(observed) = k
                /\ status = compose_status(observed[k]).val

C1_Witness ==
    /\ cmd = "wait"
    /\ pc = "returned"
    /\ polls = 3
    /\ observed = <<StatusDoc(PENDING, <<>>),
                    StatusDoc(Upper(RUNNING), <<BUILDING>>),
                    StatusDoc(Title(SUCCESS), <<SUCCESS>>)>>
    /\ status.status = SUCCESS

\* C2: wait_for_compose has no timeout and no attempt limit.  The loop is left
\* only with a terminal status returned or with the error of the poll that
\* raised; a sleeping loop polls again and a poll is answered; and once the
\* service answers non-terminal statuses for good (the model's window of
\* recorded answers is full) the call never returns and keeps polling.
LeavesLoop == Waiting /\ InLoop /\ pc' \notin {"poll", "sleep"}

C2_ExitOnlyOnTerminalOrError ==
    LeavesLoop =>
        \/ /\ pc' = "returned"
           /\ Terminal(observed'[Len(observed')])
           /\ status'.status \in TerminalStatuses
        \/ /\ pc' = "raised"
           /\ Raises(observed'[Len(observed')])
           /\ error' = compose_status(observed'[Len(observed')]).err

NonTerminalForGood == Waiting /\ InLoop /\ polls = MaxPolls

C2_NoTimeout ==
    /\ [][C2_ExitOnlyOnTerminalOrError]_vars
    /\ [][NonTerminalForGood => InLoop']_vars
    /\ (Waiting /\ pc = "sleep") ~> (pc = "poll")
    /\ (Waiting /\ pc = "poll") ~> (pc \in {"sleep", "returned", "raised"})
    /\ NonTerminalForGood ~> (pc = "sleep" /\ polls = MaxPolls)

C2_Witness ==
    /\ cmd = "handler"
    /\ pc = "sleep"
    /\ polls = MaxPolls
    /\ \A k \in DOMAIN observed : ~Terminal(observed[k]) /\ ~Raises(observed[k])

\* C3: is_finished holds exactly for the statuses success, failed, finished
\* and is_success exactly for success, finished; for every other status both
\* are false, so is_success implies is_finished.
C3_Predicates ==
    /\ is_finished(status) <=> status.status \in {SUCCESS, FAILED, FINISHED}
    /\ is_success(status) <=> status.status \in {SUCCESS, FINISHED}
    /\ status.status \notin {SUCCESS, FAILED, FINISHED} =>
           ~is_finished(status) /\ ~is_success(status)
    /\ is_success(status) => is_finished(status)

C3_Witness ==
    /\ cmd = "status"
    /\ pc = "done"
    /\ status.status = FAILED
    /\ is_finished(status)
    /\ ~is_success(status)

\* The top-level status vocabulary and the per-image status vocabulary.
TopLevelVocabulary ==
    {SUCCESS, FAILED, PENDING, RUNNING, WAITING, REGISTERING, FINISHED}
PerImageVocabulary ==
    {SUCCESS, FAILED, PENDING, BUILDING, UPLOADING, WAITING, FINISHED, RUNNING}

\* The lower-case word that s is a letter-casing of.
LowerCaseWords == TopLevelVocabulary \cup PerImageVocabulary \cup {BOGUS}
ToLowerWord(s) == CHOOSE w \in LowerCaseWords : Upper(w) = Upper(s)

\* resp is a status document with its three keys.
CompleteDoc(resp) ==
    /\ resp.kind = "json"
    /\ {"status", "koji_task_id", "image_statuses"} \subseteq DOMAIN resp.data

LastObserved == observed[Len(observed)]

\* C4: from_dict validates the top-level status strictly, so every
\* ComposeStatus returned by compose_status, and so every status the wait loop
\* tests, has its status inside the seven-value vocabulary.
C4_TopLevelStatusInVocabulary ==
    status # NoStatus => status.status \in TopLevelVocabulary

\* Some per-image status of resp is outside the per-image vocabulary.
BadImage(resp) ==
    /\ CompleteDoc(resp)
    /\ \E k \in DOMAIN resp.data.image_statuses :
          ToLowerWord(resp.data.image_statuses[k].status) \notin PerImageVocabulary

\* C5: a status document with a per-image status outside the eight-value
\* vocabulary raises and yields no ComposeStatus, whatever its top-level status
\* and its other image statuses: the status held is still the one of the poll
\* before, and nothing is returned.
C5_BadImageStatusRaises ==
    (observed # <<>> /\ BadImage(LastObserved)) =>
        /\ pc = "raised"
        /\ error = "ValueError"
        /\ result = NoResult
        /\ status = IF Len(observed) = 1 THEN NoStatus
                    ELSE compose_status(observed[Len(observed) - 1]).val

C5_Witness ==
    /\ cmd = "status"
    /\ pc = "raised"
    /\ observed = <<StatusDoc(SUCCESS, <<SUCCESS, BOGUS>>)>>
    /\ status = NoStatus

\* The document resp with every status in lower case.
LowerDoc(resp) ==
    StatusDoc(ToLowerWord(resp.data.status),
              [k \in DOMAIN resp.data.image_statuses |->
                  ToLowerWord(resp.data.image_statuses[k].status)])

\* C6: status parsing is case-insensitive: whatever the letter-casing of the
\* top-level and per-image statuses, the status command ends as it does for
\* the all-lower-case document, with the same ComposeStatus, whose status is
\* in lower case; FAILED yields failed, finished and not a success.
C6_CaseInsensitive ==
    (cmd = "status" /\ pc # "start" /\ CompleteDoc(observed[1])) =>
        /\ compose_status(LowerDoc(observed[1])).err = "" =>
              /\ pc = "done"
              /\ status = compose_status(LowerDoc(observed[1])).val
              /\ status.status = ToLowerWord(observed[1].data.status)
              /\ result = [shown |-> status]
        /\ compose_status(LowerDoc(observed[1])).err # "" =>
              /\ pc = "raised"
              /\ error = compose_status(LowerDoc(observed[1])).err
        /\ (pc = "done" /\ observed[1].data.status = Upper(FAILED)) =>
              /\ status.status = FAILED
              /\ is_finished(status)
              /\ ~is_success(status)

C6_Witness ==
    /\ cmd = "status"
    /\ pc = "done"
    /\ observed = <<StatusDoc(Upper(FAILED), <<Upper(FAILED)>>)>>
    /\ status = [status |-> FAILED, images |-> <<FAILED>>, koji_task_id |-> TaskId]

\* C7: when the handler's wait ended with a status, a successful one gives
\* exactly {koji_builds: [], build: "<cid>-1-1"} and a failed one exactly
\* {koji_builds: []}, without a build key and without raising.
C7_HandlerResult ==
    (cmd = "handler" /\ pc = "done") =>
        /\ error = ""
        /\ status.status \in {SUCCESS, FINISHED} =>
              /\ result = [koji_builds |-> <<>>, build |-> cid \o <<"-", "1", "-", "1">>]
              /\ cid = C1Id => result.build = <<"c", "1", "-", "1", "-", "1">>
        /\ status.status \notin {SUCCESS, FINISHED} =>
              /\ status.status = FAILED
              /\ result = [koji_builds |-> <<>>]
              /\ DOMAIN result = {"koji_builds"}

C7_Witness ==
    /\ cmd = "handler"
    /\ pc = "done"
    /\ cid = C1Id
    /\ status.status = SUCCESS
    /\ result = [koji_builds |-> <<>>, build |-> <<"c", "1", "-", "1", "-", "1">>]

\* The three ways a run of the handler ends.
Succeeded == pc = "done" /\ error = "" /\ "build" \in DOMAIN result
Failed == pc = "done" /\ error = "" /\ result = [koji_builds |-> <<>>]
Aborted == pc = "raised" /\ error # "" /\ result = NoResult

\* compose_create sent its request and raised.
SubmitRaised ==
    /\ posts # <<>>
    /\ \/ posts[1].answer.kind # "json"
       \/ "id" \notin DOMAIN posts[1].answer.data

\* The last poll raised.
PollRaised == observed # <<>> /\ Raises(LastObserved)

\* C8: a completed run of the handler ends in exactly one of Succeeded,
\* Failed, Aborted; a result is returned only after a poll has observed a
\* terminal status; an error raised by submit or by a poll ends in Aborted.
C8_Outcomes ==
    cmd = "handler" =>
        /\ pc \in {"done", "raised"} =>
              /\ Succeeded \/ Failed \/ Aborted
              /\ ~(Succeeded /\ Failed)
              /\ ~ENABLED Next
        /\ result # NoResult =>
              /\ pc = "done"
              /\ observed # <<>>
              /\ Terminal(LastObserved)
        /\ (SubmitRaised \/ PollRaised) => Aborted

C8_Witness ==
    /\ cmd = "handler"
    /\ Aborted
    /\ polls = 2
    /\ PollRaised
    /\ ~Raises(observed[1])

\* C9: the handler calls compose_create exactly once and before any
\* compose_status call; if it raises, the handler raises with no second
\* submission and no poll; every poll is for the compose id that the one
\* submission returned.
C9_SubmitOnce ==
    cmd = "handler" =>
        /\ Len(posts) <= 1
        /\ pc # "start" => Len(posts) = 1
        /\ polls > 0 =>
              /\ Len(posts) = 1
              /\ ~SubmitRaised
              /\ cid = posts[1].answer.data.id
              /\ polled = {posts[1].answer.data.id}
        /\ SubmitRaised =>
              /\ pc = "raised"
              /\ polls = 0
              /\ polled = {}
              /\ observed = <<>>

C9_Witness ==
    /\ cmd = "handler"
    /\ polls = 2
    /\ Len(posts) = 1
    /\ polled = {Abc123Id}

\* The format list, the architecture list and the repository list that the
\* loops of the handler and of the compose command run over.
LoopFormats ==
    IF cmd = "handler" THEN <<QCOW2>>
    ELSE IF args.format = <<>> THEN <<QCOW2>> ELSE args.format
LoopArches == IF cmd = "handler" THEN args.arches ELSE args.arch
LoopRepos ==
    IF cmd = "handler" THEN <<[baseurl |-> repo_url, gpgkey |-> NoKey]>>
    ELSE [k \in DOMAIN args.repo |-> [baseurl |-> args.repo[k], gpgkey |-> NoKey]]

\* C10: for formats F and architectures A the image-request list has
\* |F|*|A| entries, the entry at index i*|A|+j (from 0) is (A[j], F[i]), every
\* entry carries the same repository list, and the submitted image_requests
\* keep that order.
C10_FormatMajorOrder ==
    (cmd \in {"handler", "compose"} /\ pc # "start") =>
        /\ Len(images) = Len(LoopFormats) * Len(LoopArches)
        /\ \A i \in 0..(Len(LoopFormats) - 1), j \in 0..(Len(LoopArches) - 1) :
              images[i * Len(LoopArches) + j + 1] =
                  [architecture |-> LoopArches[j + 1],
                   image_type |-> LoopFormats[i + 1],
                   repositories |-> LoopRepos]
        /\ posts # <<>> =>
              /\ Len(posts[1].body.image_requests) = Len(images)
              /\ \A k \in DOMAIN images :
                    /\ posts[1].body.image_requests[k].architecture =
                           images[k].architecture
                    /\ posts[1].body.image_requests[k].image_type =
                           images[k].image_type

C10_Witness ==
    /\ cmd = "compose"
    /\ args.format = <<AMI, QCOW2>>
    /\ args.arch = <<X86_64, AARCH64>>
    /\ posts # <<>>
    /\ Len(images) = 4
    /\ images[2].architecture = AARCH64 /\ images[2].image_type = AMI
    /\ images[3].architecture = X86_64 /\ images[3].image_type = QCOW2

\* Length of the arch placeholder ("${arch}" or "$arch") of s at position i,
\* 0 when there is none there.
ArchPlaceholderAt(s, i) ==
    IF i + 6 <= Len(s) /\ SubSeq(s, i, i + 6) = <<"$", "{", "a", "r", "c", "h", "}">>
    THEN 7
    ELSE IF /\ i + 4 <= Len(s)
            /\ SubSeq(s, i, i + 4) = <<"$", "a", "r", "c", "h">>
            /\ (i + 5 <= Len(s) => ~IdChar(s[i + 5]))
    THEN 5
    ELSE 0

HasArchPlaceholder(s) == \E i \in DOMAIN s : ArchPlaceholderAt(s, i) > 0

\* The template s from position i on with each arch placeholder replaced by a
\* and every other character kept.
RECURSIVE ReplaceArch(_, _, _)
ReplaceArch(s, i, a) ==
    IF i > Len(s) THEN <<>>
    ELSE IF ArchPlaceholderAt(s, i) > 0
    THEN a \o ReplaceArch(s, i + ArchPlaceholderAt(s, i), a)
    ELSE <<s[i]>> \o ReplaceArch(s, i + 1, a)

\* C11: for every architecture a and every baseurl template containing the
\* arch placeholder, Repository.as_dict(a) yields the template with each arch
\* placeholder replaced by a and every other part unchanged, other "$"
\* sequences included: the request is serialized and each baseurl sent is
\* that text.
C11_OnlyArchSubstituted ==
    (cmd \in {"handler", "compose"} /\ pc # "start") =>
        \A k \in DOMAIN images :
            \A m \in DOMAIN images[k].repositories :
                HasArchPlaceholder(images[k].repositories[m].baseurl) =>
                    /\ posts # <<>>
                    /\ posts[1].body.image_requests[k].repositories[m].baseurl =
                           ReplaceArch(images[k].repositories[m].baseurl, 1,
                                       images[k].architecture)

\* The i-th poll raises and every earlier answer was a non-terminal status.
FirstRaiseAt(i) ==
    /\ i \in DOMAIN observed
    /\ Raises(observed[i])
    /\ \A j \in 1..(i - 1) : ~Terminal(observed[j]) /\ ~Raises(observed[j])

\* C14: the wait loop is fail-fast on poll errors: when the i-th
\* compose_status call raises after non-terminal answers only,
\* wait_for_compose raises that error after exactly i polls, polls no further
\* and returns no status: the status held is that of the poll before and
\* nothing is returned to the caller.
C14_FailFast ==
    Waiting =>
        \A i \in DOMAIN observed :
            FirstRaiseAt(i) =>
                /\ pc = "raised"
                /\ error = compose_status(observed[i]).err
                /\ polls = i
                /\ Len(observed) = i
                /\ result = NoResult
                /\ status = IF i = 1 THEN NoStatus
                            ELSE compose_status(observed[i - 1]).val

C14_Witness ==
    /\ cmd = "wait"
    /\ pc = "raised"
    /\ error = "URLError"
    /\ polls = 3
    /\ observed = <<StatusDoc(PENDING, <<>>),
                    StatusDoc(Upper(RUNNING), <<BUILDING>>),
                    TransportError>>

\* The compose request for (name, version, arches): distribution
\* "{name}-{version}", one qcow2 image per architecture with the one
\* hardcoded repository resolved for it, and the fixed koji server.
RequestFor(name, version, arches) ==
    [distribution |-> name \o <<"-">> \o version,
     koji |-> [server |-> <<"h", "t", "t", "p", "s", ":", "/", "/", "l", "o", "c", "a", "l", "h", "o", "s", "t", "/", "k", "o", "j", "i", "h", "u", "b">>],
     image_requests |->
         [k \in DOMAIN arches |->
             [architecture |-> arches[k],
              image_type |-> <<"q", "c", "o", "w", "2">>,
              repositories |->
                  <<[baseurl |-> ReplaceArch(repo_url, 1, arches[k])]>>]]]

\* C16: the compose request OSBuildImage.handler submits does not depend on
\* target or opts: whatever they are, it is the request determined by name,
\* version and arches alone, and the handler always gets as far as
\* submitting it.
C16_RequestIgnoresTargetAndOpts ==
    (cmd = "handler" /\ pc # "start") =>
        /\ Len(posts) = 1
        /\ posts[1].body = RequestFor(args.name, args.version, args.arches)

C16_Witness ==
    /\ cmd = "handler"
    /\ args.target = "f33-candidate"
    /\ args.opts = [skip_tag |-> TRUE]
    /\ args.arches = <<X86_64, AARCH64>>
    /\ Len(posts) = 1
    /\ posts[1].body.distribution = <<"f", "e", "d", "o", "r", "a", "-", "3", "2">>
    /\ Len(posts[1].body.image_requests) = 2

\* C15: compose_create targets the client's base URL followed by "compose"
\* and compose_status the base URL followed by "compose/{id}": the path of
\* the base URL is kept and the sub-path appended to it.
C15_SubPathAppendedToBase ==
    /\ \A k \in DOMAIN posts :
          posts[k].url = client.url \o <<"c", "o", "m", "p", "o", "s", "e">>
    /\ \A u \in gets :
          u = client.url \o <<"c", "o", "m", "p", "o", "s", "e", "/">> \o cid

\* The seven arguments of the call, as given.
CallArguments ==
    <<args.name, args.version, args.distro, args.image_type, args.target,
      args.arches, args.opts>>

\* The priority is not negative, or the caller is an admin.
PriorityAdmitted ==
    (args.priority.type = "int" /\ args.priority.int < 0) => args.session.admin

\* C12: osbuildImage calls kojihub.make_task only after the three admission
\* checks have passed in that call: the caller got through the image
\* permission check, the seven arguments satisfy the schema, and the
\* priority is not negative unless the caller is an admin.  A call rejected
\* by any of them creates no task.
C12_TaskOnlyAfterAdmission ==
    cmd = "hub" =>
        /\ Len(tasks) <= 1
        /\ tasks # <<>> =>
              /\ pc = "done"
              /\ error = ""
              /\ args.session.image
              /\ OSBUILD_IMAGE_SCHEMA(CallArguments)
              /\ PriorityAdmitted
        /\ pc = "make_task" =>
              /\ args.session.image
              /\ OSBUILD_IMAGE_SCHEMA(CallArguments)
              /\ PriorityAdmitted
        /\ pc = "raised" => tasks = <<>> /\ error # ""
        /\ ~(/\ args.session.image
             /\ OSBUILD_IMAGE_SCHEMA(CallArguments)
             /\ PriorityAdmitted) => tasks = <<>>

C12_Witness ==
    /\ cmd = "hub"
    /\ pc = "done"
    /\ Len(tasks) = 1
    /\ args.priority = Int(0 - 1)
    /\ args.session.admin
    /\ args.image_type = Str(QCOW2)

\* C13: every task osbuildImage creates carries an argument list that
\* OSBuildImage.handler can be called with: as many positional arguments as
\* the handler has parameters, each with the parameter's meaning (name,
\* version, architectures, target, options).
C13_TaskMatchesHandler ==
    \A k \in DOMAIN tasks :
        /\ handler_bind(tasks[k].args).err = ""
        /\ handler_bind(tasks[k].args).val.name = args.name
        /\ handler_bind(tasks[k].args).val.version = args.version
        /\ handler_bind(tasks[k].args).val.arches = args.arches
        /\ handler_bind(tasks[k].args).val.target = args.target
        /\ handler_bind(tasks[k].args).val.opts = args.opts

\* The image type the call names: the string, or the single string of the
\* list.
NamedImageType ==
    IF args.image_type.type = "list" THEN args.image_type.items[1]
    ELSE args.image_type

\* C18: the conversion of a one-element image_type list to its string
\* happens only after the schema validation has succeeded, and every task
\* created carries image_type as a string, never a list, with all other
\* arguments as in the call.
C18_ImageTypeIsString ==
    cmd = "hub" =>
        /\ (task_args # <<>> /\ task_args[4].type # args.image_type.type) =>
              /\ pc \notin {"start", "validate", "convert"}
              /\ OSBUILD_IMAGE_SCHEMA(CallArguments)
        /\ pc \in {"validate", "convert"} => task_args = CallArguments
        /\ \A k \in DOMAIN tasks :
              /\ Len(tasks[k].args) = 7
              /\ tasks[k].args[4].type = "str"
              /\ tasks[k].args[4] = NamedImageType
              /\ \A i \in {1, 2, 3, 5, 6, 7} : tasks[k].args[i] = CallArguments[i]

C18_Witness ==
    /\ cmd = "hub"
    /\ pc = "done"
    /\ args.image_type = List(<<Str(QCOW2)>>)
    /\ Len(tasks) = 1
    /\ tasks[1].args[4] = Str(QCOW2)

\* C19: priority only gates admission: the task created is determined by
\* the other arguments of the call alone (method osbuildImage, the seven
\* arguments, the options channel image only), so two admitted calls that
\* differ only in priority create the same task, and priority is never in it.
C19_PriorityNotForwarded ==
    cmd = "hub" =>
        \A k \in DOMAIN tasks :
            /\ tasks[k] =
                  [method |-> "osbuildImage",
                   args |-> <<args.name, args.version, args.distro,
                              NamedImageType, args.target, args.arches,
                              args.opts>>,
                   opts |-> [channel |-> "image"]]
            /\ DOMAIN tasks[k].opts = {"channel"}

C19_Witness ==
    /\ cmd = "hub"
    /\ pc = "done"
    /\ args.priority = Int(5)
    /\ ~args.session.admin
    /\ Len(tasks) = 1
    /\ tasks[1].opts = [channel |-> "image"]

\* The URL under which the service keeps the status of compose id.
OwnUrl(id) ==
    <<"h", "t", "t", "p", ":", "/", "/", "c", "o", "m", "p", "o", "s", "e", "r", ":", "8", "7", "0", "1", "/", "c", "o", "m", "p", "o", "s", "e", "/">> \o id

\* The position of the answer that ends a wait over answers when the
\* handler runs alone: the first one that raises or is terminal; 0 when the
\* wait is still on.
SoloEnd(answers) ==
    IF \E i \in DOMAIN answers : Raises(answers[i]) \/ Terminal(answers[i])
    THEN CHOOSE i \in DOMAIN answers :
            /\ Raises(answers[i]) \/ Terminal(answers[i])
            /\ \A j \in 1..(i - 1) : ~Raises(answers[j]) /\ ~Terminal(answers[j])
    ELSE 0

\* How a handler run alone ends for the answer to its submission and the
\* answers to the polls of its compose id.
SoloOutcome(created, id, answers) ==
    IF created.kind # "json" THEN
        [ended |-> TRUE, error |-> "URLError", result |-> NoResult]
    ELSE IF SoloEnd(answers) = 0 THEN
        [ended |-> FALSE, error |-> "", result |-> NoResult]
    ELSE IF Raises(answers[SoloEnd(answers)]) THEN
        [ended |-> TRUE, error |-> compose_status(answers[SoloEnd(answers)]).err,
         result |-> NoResult]
    ELSE IF compose_status(answers[SoloEnd(answers)]).val.status = FAILED THEN
        [ended |-> TRUE, error |-> "", result |-> [koji_builds |-> <<>>]]
    ELSE
        [ended |-> TRUE, error |-> "",
         result |-> [koji_builds |-> <<>>, build |-> id \o <<"-", "1", "-", "1">>]]

\* The answers the service gave for the compose id of invocation p.
OwnAnswers(p) ==
    IF h[p].cid = NoId THEN <<>> ELSE served.answers[OwnUrl(h[p].cid)]

\* Invocation p has observed exactly the answers for its own compose id, and
\* where it has ended it has ended as it does alone against them.
EndsAsAlone(p) ==
    h[p].pc # "start" =>
        /\ h[p].observed = OwnAnswers(p)
        /\ h[p].pc \in {"done", "raised"} =>
              /\ SoloOutcome(h[p].created[1], h[p].cid, OwnAnswers(p)).ended
              /\ h[p].error =
                     SoloOutcome(h[p].created[1], h[p].cid, OwnAnswers(p)).error
              /\ h[p].result =
                     SoloOutcome(h[p].created[1], h[p].cid, OwnAnswers(p)).result
        /\ h[p].pc \in {"poll", "sleep"} =>
              ~SoloOutcome(h[p].created[1], h[p].cid, OwnAnswers(p)).ended

\* A step of one invocation leaves the other's state, its Client and the
\* answers for its compose id as they are.
StepsApart ==
    \A p, q \in Handlers :
        (p # q /\ h'[p] # h[p]) =>
            /\ h'[q] = h[q]
            /\ h[q].cid # NoId =>
                   served'.answers[OwnUrl(h[q].cid)] = served.answers[OwnUrl(h[q].cid)]

\* C17: with the submit and poll steps of two handler invocations
\* interleaved in any order, each invocation's outcome depends only on the
\* answers for its own compose id: it is the outcome the invocation reaches
\* alone against those answers, and no step of one changes state the other
\* reads.
C17_Isolation ==
    /\ [](\A p \in Handlers : EndsAsAlone(p))
    /\ [][StepsApart]_vars

C17_Witness ==
    /\ h[1].pc = "done"
    /\ h[2].pc = "raised"
    /\ h[1].cid = Abc123Id
    /\ h[2].cid = C1Id
    /\ h[1].polls = 3
    /\ h[2].polls = 2
    /\ "build" \in DOMAIN h[1].result

=============================================================================
